---- MODULE Spec2Model ----
(***************************************************************************)
(* Model of the Lose It! CSV ingestion of health-dashboard:                *)
(* LoseItCSVParser.parse_csv, _parse_number and parse_multiple_csvs        *)
(* (src/src/csv_parser.py).                                                *)
(*                                                                         *)
(* Python values are tagged records: None, str (a tuple of one-character   *)
(* strings, so that parsing can look at the characters), int.  A float is  *)
(* an integer number of tenths (Scale), which is exact for every cell the  *)
(* model feeds in.                                                         *)
(***************************************************************************)
EXTENDS Integers, Sequences, FiniteSets, TLC

\* ---------------------------------------------------------------- bounds
MaxFiles == 2
MaxRows == 2
\* Longest text handed to _parse_number on its own.
MaxLen == 3
\* Messages fetched by one sync run, and attachments of one message.
MaxMessages == 2
MaxAttachments == 2
\* Calls made on one HealthDatabase object.
MaxCalls == 3

\* Fixed-point scale of the modelled floats: one decimal digit.
Scale == 10

\* ---------------------------------------------------------- Python values
PyNone == [t |-> "None"]
PyStr(s) == [t |-> "str", s |-> s]
PyInt(n) == [t |-> "int", n |-> n]
PyFloat(x) == [t |-> "float", x |-> x]

\* Truth value of a Python object as used by `if v:`, `not v` and `a or b`.
Truthy(v) ==
    CASE v.t = "None" -> FALSE
      [] v.t = "str" -> Len(v.s) > 0
      [] v.t = "int" -> v.n # 0
      [] v.t = "float" -> v.x # 0

\* a or b
Or(a, b) == IF Truthy(a) THEN a ELSE b

\* row.get(k) and row.get(k, default) on a csv.DictReader row.
Get(row, k) == IF k \in DOMAIN row THEN row[k] ELSE PyNone
GetD(row, k, default) == IF k \in DOMAIN row THEN row[k] ELSE default

\* ------------------------------------------------------------ _parse_number
Digits == {"0", "1", "2", "3", "4", "5", "6", "7", "8", "9"}

DigitVal(c) ==
    CASE c = "0" -> 0 [] c = "1" -> 1 [] c = "2" -> 2 [] c = "3" -> 3
      [] c = "4" -> 4 [] c = "5" -> 5 [] c = "6" -> 6 [] c = "7" -> 7
      [] c = "8" -> 8 [] c = "9" -> 9

\* value.replace(',', '')
RECURSIVE RemoveCommas(_)
RemoveCommas(s) ==
    IF s = <<>> THEN <<>>
    ELSE IF Head(s) = "," THEN RemoveCommas(Tail(s))
    ELSE <<Head(s)>> \o RemoveCommas(Tail(s))

\* The unsigned decimal literals float() accepts over the model's alphabet
\* (digits, '.', '-', '+', ',' and letters): digits with at most one '.',
\* and at least one digit.
DotPositions(s) == {i \in 1..Len(s) : s[i] = "."}
IsUnsignedLiteral(s) ==
    /\ \A i \in 1..Len(s) : s[i] \in Digits \cup {"."}
    /\ Cardinality(DotPositions(s)) <= 1
    /\ \E i \in 1..Len(s) : s[i] \in Digits

StripSign(s) == IF s # <<>> /\ Head(s) \in {"-", "+"} THEN Tail(s) ELSE s

\* float(s) raises ValueError
FloatRaises(s) == ~IsUnsignedLiteral(StripSign(s))

RECURSIVE DigitsValue(_)
DigitsValue(s) ==
    IF s = <<>> THEN 0
    ELSE DigitsValue(SubSeq(s, 1, Len(s) - 1)) * 10 + DigitVal(s[Len(s)])

\* Value in tenths of an unsigned literal; the model's cells carry at most
\* one fractional digit.
UnsignedValue(s) ==
    IF DotPositions(s) = {} THEN DigitsValue(s) * Scale
    ELSE LET p == CHOOSE i \in DotPositions(s) : TRUE
             whole == SubSeq(s, 1, p - 1)
             frac == SubSeq(s, p + 1, Len(s))
         IN DigitsValue(whole) * Scale
              + (IF frac = <<>> THEN 0 ELSE DigitVal(frac[1]))

\* float(s) for a str that float() accepts
FloatOfStr(s) ==
    IF s # <<>> /\ Head(s) = "-" THEN 0 - UnsignedValue(StripSign(s))
    ELSE UnsignedValue(StripSign(s))

\* LoseItCSVParser._parse_number
ParseNumber(value) ==
    IF value = PyNone \/ value = PyStr(<<>>) THEN 0
    ELSE IF value.t = "str"
         THEN LET s == RemoveCommas(value.s)
              IN IF FloatRaises(s) THEN 0 ELSE FloatOfStr(s)
         ELSE IF value.t = "int" THEN value.n * Scale ELSE value.x

\* ------------------------------------------------------------------ columns
SpaceForm ==
    [protein_g |-> "Protein (g)", carbs_g |-> "Carbohydrates (g)",
     fat_g |-> "Fat (g)", sodium_mg |-> "Sodium (mg)",
     sugar_g |-> "Sugars (g)", fiber_g |-> "Fiber (g)"]

NoSpaceForm ==
    [protein_g |-> "Protein(g)", carbs_g |-> "Carbohydrates(g)",
     fat_g |-> "Fat(g)", sodium_mg |-> "Sodium(mg)",
     sugar_g |-> "Sugars(g)", fiber_g |-> "Fiber(g)"]

UnitFields == DOMAIN SpaceForm
NutritionFields == {"calories"} \cup UnitFields

SpaceCols == {SpaceForm[f] : f \in UnitFields}
NoSpaceCols == {NoSpaceForm[f] : f \in UnitFields}

\* ------------------------------------------------------------------- dates
\* date_parser.parse(date_str).date().isoformat().  The ISO text is
\* zero-padded and of fixed width, so a date key is modelled as the triple
\* <<year, month, day>> and Python's string order on keys as the
\* lexicographic order of the triples.
Str_20240101 == <<"2","0","2","4","-","0","1","-","0","1">>
Str_20240102 == <<"2","0","2","4","-","0","1","-","0","2">>
Str_us_1_2_2024 == <<"1","/","2","/","2","0","2","4">>
Str_na == <<"n","/","a">>

\* date_parser.parse raises on this text
DateRaises(s) == s \notin {Str_20240101, Str_20240102, Str_us_1_2_2024}

\* dateutil reads 1/2/2024 month first.
DateKey(s) ==
    CASE s = Str_20240101 -> <<2024, 1, 1>>
      [] s = Str_20240102 -> <<2024, 1, 2>>
      [] s = Str_us_1_2_2024 -> <<2024, 1, 2>>

KeyLess(a, b) ==
    \/ a[1] < b[1]
    \/ a[1] = b[1] /\ a[2] < b[2]
    \/ a[1] = b[1] /\ a[2] = b[2] /\ a[3] < b[3]

\* ----------------------------------------------------------------- buckets
\* The day entry of parse_csv lines 47-57.
NewDay(date_key) ==
    [date |-> date_key, calories |-> 0, protein_g |-> 0, carbs_g |-> 0,
     fat_g |-> 0, sodium_mg |-> 0, sugar_g |-> 0, fiber_g |-> 0,
     weight_lbs |-> PyNone]

\* Mutation: the space-delimited key wins by presence, even when empty.
ResolveFieldByPresence(row, f) ==
    IF SpaceForm[f] \in DOMAIN row THEN row[SpaceForm[f]]
    ELSE GetD(row, NoSpaceForm[f], PyInt(0))

\* Mutation: the two spellings are tried in the other order.
ResolveFieldNoSpaceFirst(row, f) ==
    Or(Get(row, NoSpaceForm[f]), GetD(row, SpaceForm[f], PyInt(0)))

\* row.get('Protein (g)') or row.get('Protein(g)', 0)
ResolveField(row, f) ==
    Or(Get(row, SpaceForm[f]), GetD(row, NoSpaceForm[f], PyInt(0)))

\* Mutation: a cell that is not numeric raises out of the try block, and the
\* fields after it are not added.
FieldOrder ==
    <<"calories", "protein_g", "carbs_g", "fat_g", "sodium_mg", "sugar_g",
      "fiber_g">>

AddNutritionAborting(day, row) ==
    LET cell(f) == IF f = "calories" THEN GetD(row, "Calories", PyInt(0))
                   ELSE ResolveField(row, f)
        bad(f) == IF cell(f).t = "str"
                  THEN cell(f).s # <<>> /\ FloatRaises(RemoveCommas(cell(f).s))
                  ELSE FALSE
        reached(n) == \A m \in 1..n : ~bad(FieldOrder[m])
        add(n) == IF reached(n) THEN ParseNumber(cell(FieldOrder[n])) ELSE 0
    IN [day EXCEPT
            !.calories = @ + add(1), !.protein_g = @ + add(2),
            !.carbs_g = @ + add(3), !.fat_g = @ + add(4),
            !.sodium_mg = @ + add(5), !.sugar_g = @ + add(6),
            !.fiber_g = @ + add(7)]

\* The body of `if row.get('Calories'):`.  _parse_number raises nothing, so
\* the try block runs to its end.
AddNutrition(day, row) ==
    [day EXCEPT
        !.calories = @ + ParseNumber(GetD(row, "Calories", PyInt(0))),
        !.protein_g = @ + ParseNumber(ResolveField(row, "protein_g")),
        !.carbs_g = @ + ParseNumber(ResolveField(row, "carbs_g")),
        !.fat_g = @ + ParseNumber(ResolveField(row, "fat_g")),
        !.sodium_mg = @ + ParseNumber(ResolveField(row, "sodium_mg")),
        !.sugar_g = @ + ParseNumber(ResolveField(row, "sugar_g")),
        !.fiber_g = @ + ParseNumber(ResolveField(row, "fiber_g"))]

\* Mutation: the weight is accumulated like a nutrition field.
SetWeightAdding(day, row) ==
    [day EXCEPT !.weight_lbs =
        PyFloat((IF @ = PyNone THEN 0 ELSE @.x) + ParseNumber(row["Weight"]))]

\* The body of `if row.get('Weight'):`
SetWeight(day, row) ==
    [day EXCEPT !.weight_lbs = PyFloat(ParseNumber(row["Weight"]))]

\* Mutation: the day entry is initialised on every row, not only when the
\* date is new.
AggregateIntoResetting(ds, row) ==
    LET date_key == DateKey(row["Date"].s)
        d0 == NewDay(date_key)
        d1 == IF Truthy(Get(row, "Calories")) THEN AddNutrition(d0, row) ELSE d0
        d2 == IF Truthy(Get(row, "Weight")) THEN SetWeight(d1, row) ELSE d1
    IN [k \in DOMAIN ds \cup {date_key} |-> IF k = date_key THEN d2 ELSE ds[k]]

\* Mutation: the day entry is created only by a row that carries Calories or
\* Weight.
AggregateIntoLazy(ds, row) ==
    LET date_key == DateKey(row["Date"].s)
        d0 == IF date_key \in DOMAIN ds THEN ds[date_key] ELSE NewDay(date_key)
        d1 == IF Truthy(Get(row, "Calories")) THEN AddNutrition(d0, row) ELSE d0
        d2 == IF Truthy(Get(row, "Weight")) THEN SetWeight(d1, row) ELSE d1
    IN IF Truthy(Get(row, "Calories")) \/ Truthy(Get(row, "Weight"))
       THEN [k \in DOMAIN ds \cup {date_key} |->
                IF k = date_key THEN d2 ELSE ds[k]]
       ELSE ds

\* Mutation: the nutrition fields are added without the Calories test.
AggregateIntoUngated(ds, row) ==
    LET date_key == DateKey(row["Date"].s)
        d0 == IF date_key \in DOMAIN ds THEN ds[date_key] ELSE NewDay(date_key)
        d1 == AddNutrition(d0, row)
        d2 == IF Truthy(Get(row, "Weight")) THEN SetWeight(d1, row) ELSE d1
    IN [k \in DOMAIN ds \cup {date_key} |-> IF k = date_key THEN d2 ELSE ds[k]]

\* One iteration of parse_csv's row loop on a row whose date parsed.
AggregateInto(ds, row) ==
    LET date_key == DateKey(row["Date"].s)
        d0 == IF date_key \in DOMAIN ds THEN ds[date_key] ELSE NewDay(date_key)
        d1 == IF Truthy(Get(row, "Calories")) THEN AddNutrition(d0, row) ELSE d0
        d2 == IF Truthy(Get(row, "Weight")) THEN SetWeight(d1, row) ELSE d1
    IN [k \in DOMAIN ds \cup {date_key} |-> IF k = date_key THEN d2 ELSE ds[k]]

\* `if not row.get('Date'): continue` and the except branch of the date parse
RowSkipped(row) ==
    IF ~Truthy(Get(row, "Date")) THEN TRUE ELSE DateRaises(row["Date"].s)

\* Mutation: a date that fails to parse is kept as the key of a fresh day
\* entry instead of skipping the row.
SkipKeepingRawDate(ds, row) ==
    IF Truthy(Get(row, "Date"))
    THEN [k \in DOMAIN ds \cup {row["Date"].s} |->
            IF k = row["Date"].s THEN NewDay(k) ELSE ds[k]]
    ELSE ds

\* `days` after a `continue` of lines 33 and 43: nothing was written.
Skip(ds, row) == ds

\* Mutation: the list is sorted descending.
RECURSIVE SortedDescending(_)
SortedDescending(ds) ==
    IF DOMAIN ds = {} THEN <<>>
    ELSE LET k == CHOOSE a \in DOMAIN ds :
                    \A b \in DOMAIN ds : a = b \/ KeyLess(b, a)
         IN <<ds[k]>> \o SortedDescending([j \in DOMAIN ds \ {k} |-> ds[j]])

\* sorted(days.values(), key=lambda x: x['date'])
RECURSIVE SortedByDate(_)
SortedByDate(ds) ==
    IF DOMAIN ds = {} THEN <<>>
    ELSE LET k == CHOOSE a \in DOMAIN ds : \A b \in DOMAIN ds : a = b \/ KeyLess(a, b)
         IN <<ds[k]>> \o SortedByDate([j \in DOMAIN ds \ {k} |-> ds[j]])

\* Mutation: a later batch's entry replaces the merged one.
MergeEntryOverwriting(all, entry) ==
    [k \in DOMAIN all \cup {entry.date} |->
        IF k = entry.date THEN entry ELSE all[k]]

\* all_data[date_key][field] += entry[field], for the seven fields.
MergedSums(old, entry) ==
    [old EXCEPT
        !.calories = @ + entry.calories, !.protein_g = @ + entry.protein_g,
        !.carbs_g = @ + entry.carbs_g, !.fat_g = @ + entry.fat_g,
        !.sodium_mg = @ + entry.sodium_mg, !.sugar_g = @ + entry.sugar_g,
        !.fiber_g = @ + entry.fiber_g]

\* Mutation: the weight is taken from the later batch without the `if`.
MergeEntryAlwaysWeight(all, entry) ==
    IF entry.date \in DOMAIN all
    THEN [all EXCEPT ![entry.date] =
            [MergedSums(all[entry.date], entry) EXCEPT
                !.weight_lbs = entry.weight_lbs]]
    ELSE [k \in DOMAIN all \cup {entry.date} |->
            IF k = entry.date THEN entry ELSE all[k]]

\* Mutation: the weight is summed across batches like a nutrition field.
MergeEntrySummingWeight(all, entry) ==
    IF entry.date \in DOMAIN all
    THEN [all EXCEPT ![entry.date] =
            [MergedSums(all[entry.date], entry) EXCEPT
                !.weight_lbs =
                    IF Truthy(entry.weight_lbs)
                    THEN PyFloat((IF @ = PyNone THEN 0 ELSE @.x) + entry.weight_lbs.x)
                    ELSE @]]
    ELSE [k \in DOMAIN all \cup {entry.date} |->
            IF k = entry.date THEN entry ELSE all[k]]

\* The body of parse_multiple_csvs' loop over one parsed entry.
MergeEntry(all, entry) ==
    LET date_key == entry.date
    IN IF date_key \in DOMAIN all
       THEN LET summed == MergedSums(all[date_key], entry)
            IN [all EXCEPT ![date_key] =
                    IF Truthy(entry.weight_lbs)
                    THEN [summed EXCEPT !.weight_lbs = entry.weight_lbs]
                    ELSE summed]
       ELSE [k \in DOMAIN all \cup {date_key} |->
                IF k = date_key THEN entry ELSE all[k]]

\* `for entry in parsed:` over a whole batch
RECURSIVE MergeParsed(_, _)
MergeParsed(all, batch) ==
    IF batch = <<>> THEN all
    ELSE MergeParsed(MergeEntry(all, Head(batch)), Tail(batch))

EmptyDict == [k \in {} |-> 0]

\* ------------------------------------------------------------------ inputs
\* The cells of the export files fed to the parser.
Empty == PyStr(<<>>)
Cell_abc == PyStr(<<"a", "b", "c">>)
Cell_0 == PyStr(<<"0">>)
Cell_5 == PyStr(<<"5">>)
Cell_7 == PyStr(<<"7">>)
Cell_30 == PyStr(<<"3", "0">>)
Cell_40 == PyStr(<<"4", "0">>)
Cell_150 == PyStr(<<"1", "5", "0">>)
Cell_180 == PyStr(<<"1", "8", "0">>)
Cell_500 == PyStr(<<"5", "0", "0">>)
Cell_700 == PyStr(<<"7", "0", "0">>)
Cell_1_200 == PyStr(<<"1", ",", "2", "0", "0">>)
Cell_minus_5 == PyStr(<<"-", "5">>)
Cell_minus_30 == PyStr(<<"-", "3", "0">>)

\* Header rows of the export variants: unit columns with a space, without a
\* space, and an export that carries both spellings of the protein column
\* and no other unit column.
HdrSpace == {"Date", "Calories", "Weight"} \cup SpaceCols
HdrNoSpace == {"Date", "Calories", "Weight"} \cup NoSpaceCols
HdrBoth == {"Date", "Calories", "Weight", "Protein (g)", "Protein(g)"}

\* A family of export files: the header rows and, per column, the cells its
\* rows may carry.  A None cell is what csv.DictReader gives a short row.
NutritionExports ==
    [name |-> "nutrition", headers |-> {HdrSpace},
     date |-> {PyStr(Str_20240101), PyStr(Str_us_1_2_2024)},
     calories |-> {Empty, Cell_500, Cell_1_200},
     weight |-> {Empty},
     space |-> {Cell_30, Cell_abc},
     nospace |-> {Cell_40}]

WeightExports ==
    [name |-> "weight", headers |-> {HdrSpace},
     date |-> {PyStr(Str_20240101), PyStr(Str_20240102)},
     calories |-> {Empty, Cell_500},
     weight |-> {Empty, Cell_150, Cell_0},
     space |-> {Cell_30},
     nospace |-> {Cell_40}]

SynonymExports ==
    [name |-> "synonyms", headers |-> {HdrBoth},
     date |-> {PyStr(Str_20240101)},
     calories |-> {Cell_500, Cell_700},
     weight |-> {Empty, Cell_180},
     space |-> {Empty, Cell_30},
     nospace |-> {Empty, Cell_40}]

DateExports ==
    [name |-> "dates", headers |-> {HdrNoSpace},
     date |-> {PyNone, Empty, PyStr(Str_na), PyStr(Str_20240101),
               PyStr(Str_20240102), PyStr(Str_us_1_2_2024)},
     calories |-> {Cell_500},
     weight |-> {Empty, Cell_180},
     space |-> {Cell_30},
     nospace |-> {Cell_40}]

SignedExports ==
    [name |-> "signed", headers |-> {HdrBoth},
     date |-> {PyStr(Str_20240101)},
     calories |-> {Cell_500, Cell_minus_5},
     weight |-> {Empty},
     space |-> {Cell_30, Cell_minus_30},
     nospace |-> {Empty}]

Exports ==
    {NutritionExports, WeightExports, SynonymExports, DateExports,
     SignedExports}

\* A buffer that csv_data.decode('utf-8') rejects.
Undecodable == [header |-> {}, rows |-> <<>>, bytes |-> "not UTF-8"]
Decodable(file) == "bytes" \notin DOMAIN file

\* A line on which csv.DictReader raises csv.Error (a carriage return inside
\* an unquoted field, a field longer than the csv field size limit).
BadLine == [line |-> "csv.Error"]

\* A csv.DictReader row under header h: every column of the header is a key.
\* The protein columns carry the cells sp and ns; the other unit columns
\* carry a fixed cell per spelling.
Row(h, d, c, w, sp, ns) ==
    [k \in h |->
        CASE k = "Date" -> d
          [] k = "Calories" -> c
          [] k = "Weight" -> w
          [] k = "Protein (g)" -> sp
          [] k = "Protein(g)" -> ns
          [] k \in SpaceCols \ {"Protein (g)"} -> Cell_5
          [] k \in NoSpaceCols \ {"Protein(g)"} -> Cell_7]

RowsOf(e, h) ==
    {Row(h, d, c, w, sp, ns) :
        d \in e.date, c \in e.calories, w \in e.weight,
        sp \in e.space, ns \in e.nospace}

\* ------------------------------------------------------------------- state
VARIABLES
    exports,    \* the family of export files this run is fed from
    csv_files,  \* the files handed to parse_multiple_csvs so far, each with
                \* the rows read so far: <<[header, rows]>>
    pc,         \* "files": at the head of `for csv_data in csv_files`;
                \* "rows": inside parse_csv's `for row in reader`;
                \* "done": parse_multiple_csvs has returned;
                \* "raised": an exception has left parse_multiple_csvs
    days,       \* parse_csv's `days`
    parsed,     \* the result of the last parse_csv call
    batches,    \* every parse_csv result so far, in call order
    all_data,   \* parse_multiple_csvs' `all_data`
    result,     \* the list parse_multiple_csvs returns
    value,      \* the argument of a _parse_number call
    number,     \* what that call returned
    step,       \* where sync_data.main is
    client,     \* HealthDatabase.client
    closed,     \* client.close() has been called
    messages,   \* what gmail.fetch_messages returned
    nutrition_data, \* main's nutrition_data
    food_entries,   \* main's food_entries
    exception,  \* the exception main's handlers caught
    exit_code,  \* what main returned
    calls       \* the calls made on a HealthDatabase object, each with its
                \* outcome and whether it handed a request to the client

parservars == <<exports, pc, days, parsed, batches, all_data, result>>
numbervars == <<value, number>>
syncvars ==
    <<step, client, closed, messages, nutrition_data, food_entries,
      exception, exit_code>>

vars == <<parservars, csv_files, numbervars, syncvars, calls>>

\* No _parse_number call is under study.
NumberIdle == value = PyNone /\ number = PyNone

\* main is not running.
SyncIdle ==
    /\ step = "idle"
    /\ client = PyNone
    /\ closed = FALSE
    /\ messages = <<>>
    /\ nutrition_data = PyNone
    /\ food_entries = PyNone
    /\ exception = "none"
    /\ exit_code = PyNone

\* No HealthDatabase object is driven on its own.
DatabaseIdle == calls = <<>>

Init ==
    /\ exports \in Exports
    /\ csv_files = <<>>
    /\ pc = "files"
    /\ days = EmptyDict
    /\ parsed = <<>>
    /\ batches = <<>>
    /\ all_data = EmptyDict
    /\ result = <<>>
    /\ NumberIdle
    /\ SyncIdle
    /\ DatabaseIdle

CurrentRows == csv_files[Len(csv_files)].rows
CurrentHeader == csv_files[Len(csv_files)].header

AppendRow(row) ==
    [csv_files EXCEPT ![Len(csv_files)].rows = Append(@, row)]

\* parse_multiple_csvs takes the next file and parse_csv starts on it:
\* decode, DictReader reads the header, days = {}.
OpenFile ==
    /\ pc = "files"
    /\ Len(csv_files) < MaxFiles
    /\ \E h \in exports.headers :
          csv_files' = Append(csv_files, [header |-> h, rows |-> <<>>])
    /\ days' = EmptyDict
    /\ pc' = "rows"
    /\ UNCHANGED <<exports, parsed, batches, all_data, result>>
    /\ UNCHANGED <<numbervars, syncvars, calls>>

\* The next file is not UTF-8: csv_data.decode raises UnicodeDecodeError,
\* which nothing in parse_csv or parse_multiple_csvs catches.
DecodeFails ==
    /\ pc = "files"
    /\ Len(csv_files) < MaxFiles
    /\ csv_files' = Append(csv_files, Undecodable)
    /\ pc' = "raised"
    /\ UNCHANGED <<exports, days, parsed, batches, all_data, result>>
    /\ UNCHANGED <<numbervars, syncvars, calls>>

\* The reader raises csv.Error on the next line; `for row in reader` is
\* outside every try block.
ReaderFails ==
    /\ pc = "rows"
    /\ Len(CurrentRows) < MaxRows
    /\ csv_files' = AppendRow(BadLine)
    /\ pc' = "raised"
    /\ UNCHANGED <<exports, days, parsed, batches, all_data, result>>
    /\ UNCHANGED <<numbervars, syncvars, calls>>

\* A row without a usable date: `continue`.
SkipRow ==
    /\ pc = "rows"
    /\ Len(CurrentRows) < MaxRows
    /\ \E row \in RowsOf(exports, CurrentHeader) :
          /\ RowSkipped(row)
          /\ csv_files' = AppendRow(row)
          /\ days' = Skip(days, row)
    /\ UNCHANGED <<exports, pc, parsed, batches, all_data, result>>
    /\ UNCHANGED <<numbervars, syncvars, calls>>

\* A row whose date parses: the rest of the loop body.
AggregateRow ==
    /\ pc = "rows"
    /\ Len(CurrentRows) < MaxRows
    /\ \E row \in RowsOf(exports, CurrentHeader) :
          /\ ~RowSkipped(row)
          /\ csv_files' = AppendRow(row)
          /\ days' = AggregateInto(days, row)
    /\ UNCHANGED <<exports, pc, parsed, batches, all_data, result>>
    /\ UNCHANGED <<numbervars, syncvars, calls>>

\* The reader is exhausted: parse_csv sorts and returns, and
\* parse_multiple_csvs merges the returned entries into all_data.
CloseFile ==
    /\ pc = "rows"
    /\ parsed' = SortedByDate(days)
    /\ batches' = Append(batches, parsed')
    /\ all_data' = MergeParsed(all_data, parsed')
    /\ pc' = "files"
    /\ UNCHANGED <<exports, csv_files, days, result>>
    /\ UNCHANGED <<numbervars, syncvars, calls>>

\* No file is left: parse_multiple_csvs sorts all_data and returns.
Return ==
    /\ pc = "files"
    /\ result' = SortedByDate(all_data)
    /\ pc' = "done"
    /\ UNCHANGED <<exports, csv_files, days, parsed, batches, all_data>>
    /\ UNCHANGED <<numbervars, syncvars, calls>>

Next ==
    \/ OpenFile \/ DecodeFails
    \/ SkipRow \/ AggregateRow \/ ReaderFails
    \/ CloseFile \/ Return

Spec == Init /\ [][Next]_vars

\* ------------------------------------------- _parse_number as an operation
\* The characters of the texts handed to _parse_number.
Alphabet == {"1", "5", ",", ".", "-", "a"}
Strings(n) == UNION {[1..k -> Alphabet] : k \in 0..n}

\* The modelled floats carry one decimal digit: texts with more fractional
\* digits are left out of the inputs.
OneDecimal(s) ==
    \A p \in DotPositions(RemoveCommas(s)) : Len(RemoveCommas(s)) - p <= 1

Str_1_234_5 == <<"1", ",", "2", "3", "4", ".", "5">>

\* An int beyond the range of float: float(value) raises OverflowError,
\* which `except (ValueError, TypeError)` does not catch.
Int_10_pow_400 == [t |-> "int", exp10 |-> 400]
FloatOverflows(v) == v = Int_10_pow_400

Raised(e) == [t |-> "raised", e |-> e]

NumberInputs ==
    {PyNone, PyInt(0), Int_10_pow_400, PyStr(Str_1_234_5), Cell_abc}
        \cup {PyStr(s) : s \in {x \in Strings(MaxLen) : OneDecimal(x)}}

InitNumber ==
    /\ exports = NutritionExports
    /\ csv_files = <<>>
    /\ pc = "files"
    /\ days = EmptyDict
    /\ parsed = <<>>
    /\ batches = <<>>
    /\ all_data = EmptyDict
    /\ result = <<>>
    /\ value \in NumberInputs
    /\ number = PyNone
    /\ SyncIdle
    /\ DatabaseIdle

\* One call of _parse_number(value).
CallParseNumber ==
    /\ number = PyNone
    /\ number' = IF FloatOverflows(value) THEN Raised("OverflowError")
                 ELSE PyFloat(ParseNumber(value))
    /\ UNCHANGED <<value, parservars, csv_files, syncvars, calls>>

NextNumber == CallParseNumber

SpecNumber == InitNumber /\ [][NextNumber]_vars

\* ------------------------------------------------------- sync_data.main
\* HealthDatabase.client once connect() has assigned it.
InfluxDBClient == [t |-> "InfluxDBClient"]

\* Attachment buffers: an export with no row, an export with one
\* 500-calorie row, and bytes that are not UTF-8.
EmptyExport == [header |-> HdrSpace, rows |-> <<>>]
OneDayExport ==
    [header |-> HdrSpace,
     rows |-> <<Row(HdrSpace, PyStr(Str_20240101), Cell_500, Empty,
                    Cell_30, Empty)>>]
Buffers == {EmptyExport, OneDayExport, Undecodable}

\* Sequences over S of length lo..hi.
SeqsOf(S, lo, hi) == UNION {[1..k -> S] : k \in lo..hi}

\* fetch_messages returns only messages that have attachments.
Messages == {[attachments |-> a] : a \in SeqsOf(Buffers, 1, MaxAttachments)}
MessageLists == SeqsOf(Messages, 0, MaxMessages)

\* csv_files after the nested loop over messages and their attachments.
RECURSIVE ExtractAttachments(_)
ExtractAttachments(msgs) ==
    IF Len(msgs) = 0 THEN <<>>
    ELSE ExtractAttachments(SubSeq(msgs, 1, Len(msgs) - 1))
            \o msgs[Len(msgs)].attachments

\* def parse_multiple_csvs(self, csv_files), and the keywords of the call
\* parser.parse_multiple_csvs(csv_files, extract_foods=True).
ParseMultipleCsvsParams == {"self", "csv_files"}
CallKeywords == {"extract_foods"}
\* A keyword that is no parameter: the call raises TypeError before the
\* body runs.
UnexpectedKeyword == CallKeywords \ ParseMultipleCsvsParams # {}

\* `return code` from inside the try block: the finally clause runs
\* db.close(), which closes the client when there is one.
ReturnFromTry(code, c) ==
    /\ exit_code' = PyInt(code)
    /\ closed' = (c # PyNone)
    /\ step' = "returned"

InitSync ==
    /\ exports = NutritionExports
    /\ csv_files = <<>>
    /\ pc = "files"
    /\ days = EmptyDict
    /\ parsed = <<>>
    /\ batches = <<>>
    /\ all_data = EmptyDict
    /\ result = <<>>
    /\ NumberIdle
    /\ step = "connect"
    /\ client = PyNone
    /\ closed = FALSE
    /\ messages = <<>>
    /\ nutrition_data = PyNone
    /\ food_entries = PyNone
    /\ exception = "none"
    /\ exit_code = PyNone
    /\ DatabaseIdle

\* Step 1: db.connect(). The constructor may raise (client stays None),
\* get_list_database may raise (client assigned, connect returns False),
\* or connect returns True.
Connect ==
    /\ step = "connect"
    /\ \E outcome \in {"connected", "unreachable", "no client"} :
          /\ client' = IF outcome = "no client" THEN PyNone ELSE InfluxDBClient
          /\ IF outcome = "connected"
             THEN /\ step' = "authenticate"
                  /\ UNCHANGED <<closed, exit_code>>
             ELSE ReturnFromTry(1, client')
    /\ UNCHANGED <<messages, nutrition_data, food_entries, exception>>
    /\ UNCHANGED <<parservars, csv_files, numbervars, calls>>

\* Step 2: gmail.authenticate(). FileNotFoundError has its own handler,
\* anything else reaches `except Exception`; both return 1.
Authenticate ==
    /\ step = "authenticate"
    /\ \E outcome \in {"authenticated", "FileNotFoundError", "Exception"} :
          IF outcome = "authenticated"
          THEN /\ step' = "fetch"
               /\ UNCHANGED <<closed, exit_code, exception>>
          ELSE /\ exception' = outcome
               /\ ReturnFromTry(1, client)
    /\ UNCHANGED <<client, messages, nutrition_data, food_entries>>
    /\ UNCHANGED <<parservars, csv_files, numbervars, calls>>

\* Step 3: gmail.fetch_messages(); an empty list returns 1.
FetchMessages ==
    /\ step = "fetch"
    /\ \E fetched \in MessageLists :
          /\ messages' = fetched
          /\ IF Len(fetched) = 0
             THEN ReturnFromTry(1, client)
             ELSE /\ step' = "extract"
                  /\ UNCHANGED <<closed, exit_code>>
    /\ UNCHANGED <<client, nutrition_data, food_entries, exception>>
    /\ UNCHANGED <<parservars, csv_files, numbervars, calls>>

\* The loop that collects every attachment's data into csv_files.
ExtractCsvFiles ==
    /\ step = "extract"
    /\ csv_files' = ExtractAttachments(messages)
    /\ step' = "parse"
    /\ UNCHANGED <<client, closed, messages, nutrition_data, food_entries,
                   exception, exit_code>>
    /\ UNCHANGED <<parservars, numbervars, calls>>

\* Step 4: the call of parse_multiple_csvs with extract_foods=True raises
\* TypeError; nutrition_data and food_entries stay unbound, nothing is
\* written, `except Exception` returns 1 and the finally clause closes the
\* database.
ParseAndStore ==
    /\ step = "parse"
    /\ UnexpectedKeyword
    /\ exception' = "TypeError"
    /\ ReturnFromTry(1, client)
    /\ UNCHANGED <<client, messages, nutrition_data, food_entries>>
    /\ UNCHANGED <<parservars, csv_files, numbervars, calls>>

\* Ctrl-C between two steps: `except KeyboardInterrupt` returns 1.
Interrupt ==
    /\ step \in {"authenticate", "fetch", "extract", "parse"}
    /\ exception' = "KeyboardInterrupt"
    /\ ReturnFromTry(1, client)
    /\ UNCHANGED <<client, messages, nutrition_data, food_entries>>
    /\ UNCHANGED <<parservars, csv_files, numbervars, calls>>

NextSync ==
    \/ Connect \/ Authenticate \/ FetchMessages
    \/ ExtractCsvFiles \/ ParseAndStore \/ Interrupt

SpecSync == InitSync /\ [][NextSync]_vars

\* ------------------------------------------------------- HealthDatabase
\* One call on the object: the method, how it ended, and whether it handed a
\* request to self.client.
Call(op, outcome, sent) == [op |-> op, outcome |-> outcome, sent |-> sent]

\* `if not self.client: raise RuntimeError(...)`, then the request inside
\* try/except: the method returns its result, or the client raises and the
\* method returns False, [] or None.
Operation(op) ==
    /\ step = "idle"
    /\ Len(calls) < MaxCalls
    /\ IF ~(client # PyNone)
       THEN calls' = Append(calls, Call(op, "RuntimeError", FALSE))
       ELSE \E outcome \in {"returned", "client raised"} :
                calls' = Append(calls, Call(op, outcome, TRUE))
    /\ UNCHANGED <<parservars, csv_files, numbervars, syncvars>>

InitDatabase ==
    /\ exports = NutritionExports
    /\ csv_files = <<>>
    /\ pc = "files"
    /\ days = EmptyDict
    /\ parsed = <<>>
    /\ batches = <<>>
    /\ all_data = EmptyDict
    /\ result = <<>>
    /\ NumberIdle
    /\ SyncIdle
    /\ calls = <<>>

\* connect(): self.client is assigned as soon as the constructor returns;
\* get_list_database or create_database may then raise, and connect
\* returns False with the client still assigned. When the constructor
\* itself raises, self.client keeps what it held.
DatabaseConnect ==
    /\ step = "idle"
    /\ Len(calls) < MaxCalls
    /\ \E outcome \in {"True", "False after client", "False before client"} :
          /\ client' = IF outcome = "False before client" THEN client
                        ELSE InfluxDBClient
          /\ closed' = IF outcome = "False before client" THEN closed
                        ELSE FALSE
          /\ calls' = Append(calls, Call("connect",
                          IF outcome = "True" THEN "True" ELSE "False",
                          outcome # "False before client"))
    /\ UNCHANGED <<step, messages, nutrition_data, food_entries, exception,
                   exit_code>>
    /\ UNCHANGED <<parservars, csv_files, numbervars>>

WriteDailyNutrition == Operation("write_daily_nutrition")
BatchWriteNutrition == Operation("batch_write_nutrition")
QueryDateRange == Operation("query_date_range")
GetLatestDate == Operation("get_latest_date")
WriteFoodEntry == Operation("write_food_entry")
BatchWriteFoodEntries == Operation("batch_write_food_entries")
QueryTopFoods == Operation("query_top_foods")

\* close() closes the client when there is one, and leaves it assigned.
DatabaseClose ==
    /\ step = "idle"
    /\ Len(calls) < MaxCalls
    /\ closed' = IF client # PyNone THEN TRUE ELSE closed
    /\ calls' = Append(calls, Call("close", "returned", client # PyNone))
    /\ UNCHANGED <<step, client, messages, nutrition_data, food_entries,
                   exception, exit_code>>
    /\ UNCHANGED <<parservars, csv_files, numbervars>>

NextDatabase ==
    \/ DatabaseConnect
    \/ WriteDailyNutrition \/ BatchWriteNutrition
    \/ QueryDateRange \/ GetLatestDate
    \/ WriteFoodEntry \/ BatchWriteFoodEntries \/ QueryTopFoods
    \/ DatabaseClose

SpecDatabase == InitDatabase /\ [][NextDatabase]_vars

\* ------------------------------------------------- vocabulary of the claims
\* A whole number as a modelled float.
F(n) == n * Scale

\* The row has the column and the cell is not empty.
HasValue(row, col) ==
    IF col \in DOMAIN row THEN row[col] # PyNone /\ row[col] # Empty ELSE FALSE

\* The row has a date cell that the date parser accepts.
ValidlyDated(row) ==
    IF HasValue(row, "Date") THEN ~DateRaises(row["Date"].s) ELSE FALSE

\* The row is validly dated and its date is the calendar date `key`.
ResolvesTo(row, key) ==
    IF ValidlyDated(row) THEN DateKey(row["Date"].s) = key ELSE FALSE

\* The calendar dates of the validly-dated rows.
ValidDates(rows) ==
    {DateKey(rows[j]["Date"].s) :
        j \in {n \in 1..Len(rows) : ValidlyDated(rows[n])}}

\* What a row offers for a nutrition field, as the parser resolves it.
Resolved(row, f) ==
    IF f = "calories" THEN Get(row, "Calories") ELSE ResolveField(row, f)

Entries(list) == {list[j] : j \in 1..Len(list)}
Dates(list) == {e.date : e \in Entries(list)}
EntryOf(list, key) == CHOOSE e \in Entries(list) : e.date = key

StrictlyAscending(list) ==
    \A j \in 1..(Len(list) - 1) : KeyLess(list[j].date, list[j + 1].date)

\* parse_csv has just returned `parsed` for the file LastFile.
Returned == pc = "files" /\ csv_files # <<>>
LastFile == csv_files[Len(csv_files)]

\* ------------------------------------------------------------------- C1
RECURSIVE SumOfRows(_, _, _)
SumOfRows(rows, key, f) ==
    IF rows = <<>> THEN 0
    ELSE (IF ResolvesTo(Head(rows), key) /\ HasValue(Head(rows), "Calories")
          THEN ParseNumber(Resolved(Head(rows), f)) ELSE 0)
         + SumOfRows(Tail(rows), key, f)

\* C1: in every parse_csv output, each of the seven nutrition fields of each
\* date is the sum, over the rows of that file that resolve to the date and
\* carry a non-empty Calories, of parse_number of the row's resolved value
\* for the field; a non-numeric cell adds 0 and the row's other fields are
\* still added.
C1_BatchSums ==
    Returned =>
        \A e \in Entries(parsed) : \A f \in NutritionFields :
            e[f] = SumOfRows(LastFile.rows, e.date, f)

\* Two rows of one date, the first with a non-numeric protein cell: its
\* calories and its later fields are in the totals.
C1_Witness ==
    /\ Returned
    /\ Len(LastFile.rows) = 2
    /\ LastFile.rows[1]["Calories"] = Cell_500
    /\ Get(LastFile.rows[1], "Protein (g)") = Cell_abc
    /\ Get(LastFile.rows[2], "Protein (g)") = Cell_30
    /\ Len(parsed) = 1
    /\ parsed[1].calories = F(1700)
    /\ parsed[1].protein_g = F(30)
    /\ parsed[1].carbs_g = F(10)
    /\ parsed[1].fiber_g = F(10)

\* ------------------------------------------------------------------- C2
RECURSIVE LastWeight(_, _)
LastWeight(rows, key) ==
    IF rows = <<>> THEN PyNone
    ELSE LET last == rows[Len(rows)]
         IN IF ResolvesTo(last, key) /\ HasValue(last, "Weight")
            THEN PyFloat(ParseNumber(last["Weight"]))
            ELSE LastWeight(SubSeq(rows, 1, Len(rows) - 1), key)

\* C2: in every parse_csv output, weight_lbs of a date is the parsed Weight
\* of the last row of that date with a non-empty Weight, whatever the rows'
\* Calories, and None when no row of the date has a Weight.
C2_LastWeightWins ==
    Returned =>
        \A e \in Entries(parsed) :
            e.weight_lbs = LastWeight(LastFile.rows, e.date)

\* A weigh-in of 150 followed by a weigh-in of 0 on the same date, on rows
\* without Calories: the day's weight is 0.0, not 150 and not the sum.
C2_Witness ==
    /\ Returned
    /\ Len(LastFile.rows) = 2
    /\ LastFile.rows[1]["Weight"] = Cell_150
    /\ LastFile.rows[2]["Weight"] = Cell_0
    /\ LastFile.rows[1]["Calories"] = Empty
    /\ Len(parsed) = 1
    /\ parsed[1].weight_lbs = PyFloat(0)

\* ------------------------------------------------------------------- C3
RECURSIVE SumOfBatches(_, _, _)
SumOfBatches(bs, key, f) ==
    IF bs = <<>> THEN 0
    ELSE (IF key \in Dates(Head(bs)) THEN EntryOf(Head(bs), key)[f] ELSE 0)
         + SumOfBatches(Tail(bs), key, f)

\* C3: in the merged output every nutrition field of every date is the sum
\* of that field over the batches whose parse_csv result has the date.
C3_MergedSums ==
    pc = "done" =>
        \A e \in Entries(result) : \A f \in NutritionFields :
            e[f] = SumOfBatches(batches, e.date, f)

\* Two batches that both report calories for one date.
C3_Witness ==
    /\ pc = "done"
    /\ Len(batches) = 2
    /\ \E e \in Entries(result) :
          /\ e.date \in Dates(batches[1]) \cap Dates(batches[2])
          /\ EntryOf(batches[1], e.date).calories = F(500)
          /\ EntryOf(batches[2], e.date).calories = F(1200)
          /\ e.calories = F(1700)
          /\ e.carbs_g = F(10)

\* ------------------------------------------------------------------- C4
RECURSIVE LastBatchWeight(_, _)
LastBatchWeight(bs, key) ==
    IF bs = <<>> THEN PyNone
    ELSE LET last == bs[Len(bs)]
             w == IF key \in Dates(last) THEN EntryOf(last, key).weight_lbs
                  ELSE PyNone
         IN IF w # PyNone THEN w
            ELSE LastBatchWeight(SubSeq(bs, 1, Len(bs) - 1), key)

\* C4: the merged weight_lbs of a date is the weight of the last batch, in
\* input order, that reports a non-null weight for the date, a weight of 0.0
\* included.
C4_LaterWeightOverwrites ==
    pc = "done" =>
        \A e \in Entries(result) :
            e.weight_lbs = LastBatchWeight(batches, e.date)

\* ------------------------------------------------------------------- C5
BatchWeight(batch, key) ==
    IF key \in Dates(batch) THEN EntryOf(batch, key).weight_lbs ELSE PyNone

\* C5: when a date's merged record holds a non-null weight, merging a batch
\* without a weight observation for that date leaves the merged weight as it
\* was.
C5_NullWeightKeeps ==
    [][\A key \in DOMAIN all_data :
          (/\ pc = "rows" /\ pc' = "files"
           /\ all_data[key].weight_lbs # PyNone
           /\ BatchWeight(parsed', key) = PyNone)
          => all_data'[key].weight_lbs = all_data[key].weight_lbs]_vars

\* {day: weight=150} merged with a later {day: weight=None} gives 150.
C5_Witness ==
    /\ pc = "done"
    /\ Len(batches) = 2
    /\ Len(result) = 1
    /\ Len(batches[1]) = 1 /\ batches[1][1].weight_lbs = PyFloat(F(150))
    /\ Len(batches[2]) = 1 /\ batches[2][1].weight_lbs = PyNone
    /\ result[1].weight_lbs = PyFloat(F(150))

\* ------------------------------------------------------------------- C6
AllValidDates == UNION {ValidDates(csv_files[i].rows) : i \in 1..Len(csv_files)}

\* C6: the output of parse_csv has exactly the calendar dates of the file's
\* validly-dated rows, the output of parse_multiple_csvs exactly those of all
\* files, each date once, and both lists are strictly ascending by date.
C6_OneEntryPerDateSorted ==
    /\ Returned =>
          /\ Dates(parsed) = ValidDates(LastFile.rows)
          /\ StrictlyAscending(parsed)
    /\ pc = "done" =>
          /\ Dates(result) = AllValidDates
          /\ StrictlyAscending(result)

\* Two files that meet the two dates in opposite orders and in two
\* spellings, next to rows without a usable date.
C6_Witness ==
    /\ pc = "done"
    /\ Len(csv_files) = 2
    /\ Len(csv_files[1].rows) = 2 /\ Len(csv_files[2].rows) = 2
    /\ csv_files[1].rows[1]["Date"] = PyStr(Str_us_1_2_2024)
    /\ csv_files[1].rows[2]["Date"] = PyStr(Str_20240101)
    /\ csv_files[2].rows[1]["Date"] = PyStr(Str_20240102)
    /\ csv_files[2].rows[2]["Date"] = PyStr(Str_na)
    /\ Len(result) = 2
    /\ result[1].date = <<2024, 1, 1>>
    /\ result[2].date = <<2024, 1, 2>>

\* ------------------------------------------------------------------- C7
\* Precedence by key presence: the space-delimited cell whenever the row has
\* that key, empty or not.
ByKeyPresence(row, f) ==
    IF SpaceForm[f] \in DOMAIN row THEN row[SpaceForm[f]]
    ELSE Get(row, NoSpaceForm[f])

\* Precedence by non-emptiness: the space-delimited cell when it is there
\* and not empty, the no-space cell otherwise.
ByNonEmptiness(row, f) ==
    IF HasValue(row, SpaceForm[f]) THEN row[SpaceForm[f]]
    ELSE Get(row, NoSpaceForm[f])

RECURSIVE SumBy(_, _, _, _)
SumBy(rows, key, f, presence) ==
    IF rows = <<>> THEN 0
    ELSE (IF ResolvesTo(Head(rows), key) /\ HasValue(Head(rows), "Calories")
          THEN ParseNumber(IF presence THEN ByKeyPresence(Head(rows), f)
                           ELSE ByNonEmptiness(Head(rows), f))
          ELSE 0)
         + SumBy(Tail(rows), key, f, presence)

\* C7, as stated: each unit field of a parse_csv output adds, per row, the
\* space-delimited cell whenever the row has that key (an empty one adds 0),
\* and the no-space cell only when the space-delimited key is absent.
C7_KeyPresence ==
    Returned =>
        \A e \in Entries(parsed) : \A f \in UnitFields :
            e[f] = SumBy(LastFile.rows, e.date, f, TRUE)

\* C7, amended: each unit field adds, per row, the space-delimited cell when
\* it is present and non-empty, and the no-space cell when the
\* space-delimited one is absent or empty.
C7_NonEmptiness ==
    Returned =>
        \A e \in Entries(parsed) : \A f \in UnitFields :
            e[f] = SumBy(LastFile.rows, e.date, f, FALSE)

\* A row with an empty "Protein (g)" and "Protein(g)" = 40 adds 40.
C7_Witness ==
    /\ Returned
    /\ Len(LastFile.rows) = 1
    /\ "Protein (g)" \in DOMAIN LastFile.rows[1]
    /\ LastFile.rows[1]["Protein (g)"] = Empty
    /\ LastFile.rows[1]["Protein(g)"] = Cell_40
    /\ Len(parsed) = 1
    /\ parsed[1].protein_g = F(40)

\* ------------------------------------------------------------------- C8
NewestRow == CurrentRows'[Len(CurrentRows')]

FieldBefore(key, f) == IF key \in DOMAIN days THEN days[key][f] ELSE 0

\* C8: a row that carries Calories and both spellings of a unit column with
\* non-empty cells adds the space-delimited cell to its date's field; the
\* no-space cell is ignored.
C8_SpaceFormWins ==
    [][\A f \in UnitFields :
          (/\ pc = "rows" /\ pc' = "rows" /\ csv_files' # csv_files
           /\ ValidlyDated(NewestRow)
           /\ HasValue(NewestRow, "Calories")
           /\ HasValue(NewestRow, SpaceForm[f])
           /\ HasValue(NewestRow, NoSpaceForm[f]))
          => LET key == DateKey(NewestRow["Date"].s)
             IN days'[key][f] =
                  FieldBefore(key, f) + ParseNumber(NewestRow[SpaceForm[f]])]_vars

\* Two rows with "Protein (g)" = 30 and "Protein(g)" = 40: protein is 60.
C8_Witness ==
    /\ pc = "rows"
    /\ Len(CurrentRows) = 2
    /\ \A j \in 1..2 :
          /\ Get(CurrentRows[j], "Protein (g)") = Cell_30
          /\ Get(CurrentRows[j], "Protein(g)") = Cell_40
    /\ days[<<2024, 1, 1>>].protein_g = F(60)

\* ------------------------------------------------------------------- C9
ScenarioRow1 == Row(HdrBoth, PyStr(Str_20240101), Cell_500, Empty, Cell_30, Empty)
ScenarioRow2 == Row(HdrBoth, PyStr(Str_20240101), Cell_700, Cell_180, Empty, Cell_40)

ScenarioParsed ==
    /\ Returned
    /\ LastFile.rows = <<ScenarioRow1, ScenarioRow2>>

\* C9, as stated: the two scenario rows aggregate to one DailyAggregate with
\* date 2024-01-01, calories 1200, protein_g 30 and weight_lbs 180.
C9_ScenarioProtein30 ==
    ScenarioParsed =>
        /\ Len(parsed) = 1
        /\ parsed[1].date = <<2024, 1, 1>>
        /\ parsed[1].calories = F(1200)
        /\ parsed[1].protein_g = F(30)
        /\ parsed[1].weight_lbs = PyFloat(F(180))

\* C9, amended: the same, with protein_g 70.
C9_ScenarioProtein70 ==
    ScenarioParsed =>
        /\ Len(parsed) = 1
        /\ parsed[1].date = <<2024, 1, 1>>
        /\ parsed[1].calories = F(1200)
        /\ parsed[1].protein_g = F(70)
        /\ parsed[1].weight_lbs = PyFloat(F(180))

C9_Witness ==
    /\ ScenarioParsed
    /\ Len(parsed) = 1
    /\ parsed[1].calories = F(1200)

\* ------------------------------------------------------------------ C10
SameFileTwice ==
    /\ pc = "done"
    /\ Len(csv_files) = 2
    /\ csv_files[1] = csv_files[2]

\* C10: parse_multiple_csvs([f, f]) has the dates of parse_csv(f), the same
\* weight_lbs per date, and every nutrition field doubled.
C10_SameFileTwiceDoubles ==
    SameFileTwice =>
        /\ Len(result) = Len(batches[1])
        /\ \A j \in 1..Len(result) :
              /\ result[j].date = batches[1][j].date
              /\ result[j].weight_lbs = batches[1][j].weight_lbs
              /\ \A f \in NutritionFields : result[j][f] = 2 * batches[1][j][f]

\* A file of two dates, one with a weigh-in, merged with itself.
C10_Witness ==
    /\ SameFileTwice
    /\ Len(result) = 2
    /\ result[1].calories = F(1000)
    /\ result[1].weight_lbs = PyFloat(F(150))
    /\ result[2].weight_lbs = PyNone

\* ------------------------------------------------------------------ C11
\* The step reads a row (the reader did not raise on the line).
ReadsRow ==
    /\ pc = "rows" /\ csv_files' # csv_files
    /\ NewestRow # BadLine

\* C11: a row whose Date is missing, empty or unparseable changes no bucket
\* (none is created, none changes) and the row loop goes on to the next row.
C11_BadDateSkipsRow ==
    [][(ReadsRow /\ ~ValidlyDated(NewestRow))
          => /\ days' = days
             /\ all_data' = all_data
             /\ pc' = "rows"]_vars

\* A row with an unparseable date, then a dated row of the same file: only
\* the second one has a bucket, and it was aggregated.
C11_Witness ==
    /\ pc = "rows"
    /\ Len(CurrentRows) = 2
    /\ CurrentRows[1]["Date"] = PyStr(Str_na)
    /\ CurrentRows[1]["Weight"] = Cell_180
    /\ CurrentRows[2]["Date"] = PyStr(Str_20240101)
    /\ DOMAIN days = {<<2024, 1, 1>>}
    /\ days[<<2024, 1, 1>>].calories = F(500)
    /\ days[<<2024, 1, 1>>].weight_lbs = PyNone

\* ------------------------------------------------------------------ C13
AllDecodable == \A i \in 1..Len(csv_files) : Decodable(csv_files[i])

\* C13: when every input buffer decodes as UTF-8, parse_csv and
\* parse_multiple_csvs raise nothing, whatever the rows contain.
C13_DecodableNeverRaises == AllDecodable => pc # "raised"

\* ------------------------------------------------------------------ C14
\* C14: a buffer that is not UTF-8 is surfaced as a failure of that file,
\* and the aggregates of the decodable files of the run still reach the
\* caller.
C14_DecodeFailureSparesOtherFiles ==
    (csv_files # <<>> /\ ~AllDecodable) =>
        /\ pc = "raised"
        /\ Dates(result) = AllValidDates

\* ------------------------------------------------------------------ C15
\* No row of the date carries Calories or Weight.
Uninformative(rows, key) ==
    \A j \in 1..Len(rows) :
        ResolvesTo(rows[j], key) =>
            ~HasValue(rows[j], "Calories") /\ ~HasValue(rows[j], "Weight")

\* C15: a validly-dated row without Calories and without Weight still gives
\* its date an entry in the output; when no other row of the date
\* contributes, the seven nutrition fields are 0 and weight_lbs is None.
C15_EmptyRowCreatesBucket ==
    Returned =>
        \A key \in ValidDates(LastFile.rows) :
            /\ key \in Dates(parsed)
            /\ Uninformative(LastFile.rows, key) =>
                  /\ \A f \in NutritionFields : EntryOf(parsed, key)[f] = 0
                  /\ EntryOf(parsed, key).weight_lbs = PyNone

\* A file whose only row has a date and a protein cell, but no Calories and
\* no Weight.
C15_Witness ==
    /\ Returned
    /\ Len(LastFile.rows) = 1
    /\ LastFile.rows[1]["Date"] = PyStr(Str_20240101)
    /\ LastFile.rows[1]["Calories"] = Empty
    /\ LastFile.rows[1]["Weight"] = Empty
    /\ LastFile.rows[1]["Protein (g)"] = Cell_30
    /\ parsed = <<NewDay(<<2024, 1, 1>>)>>

\* ------------------------------------------------------------------ C17
NonNegative(entry) == \A f \in NutritionFields : entry[f] >= 0

\* C17: every nutrition field of every day entry is non-negative, during the
\* accumulation and in every output.
C17_NutritionNonNegative ==
    /\ \A key \in DOMAIN days : NonNegative(days[key])
    /\ \A key \in DOMAIN all_data : NonNegative(all_data[key])
    /\ \A e \in Entries(parsed) : NonNegative(e)
    /\ \A e \in Entries(result) : NonNegative(e)

\* ------------------------------------------------------------------ C18
\* The rows of all files, in file order.
RECURSIVE AllRows(_)
AllRows(files) ==
    IF files = <<>> THEN <<>>
    ELSE AllRows(SubSeq(files, 1, Len(files) - 1)) \o files[Len(files)].rows

\* parse_csv's `days` after the rows, read as one batch.
RECURSIVE AsOneBatch(_)
AsOneBatch(rows) ==
    IF rows = <<>> THEN EmptyDict
    ELSE LET before == AsOneBatch(SubSeq(rows, 1, Len(rows) - 1))
             row == rows[Len(rows)]
         IN IF RowSkipped(row) THEN before ELSE AggregateInto(before, row)

\* C18: parse_multiple_csvs gives every date the nutrition totals and the
\* weight_lbs that parse_csv gives the concatenation of the files' rows.
C18_MergeEqualsOneBatch ==
    pc = "done" => result = SortedByDate(AsOneBatch(AllRows(csv_files)))

\* ------------------------------------------------------------------ C19
\* C19: a dated row without a Calories value leaves the seven nutrition
\* fields of its date as they were, whatever its other nutrition cells; it
\* can only create the bucket and set weight_lbs, and touches no other date.
C19_NoCaloriesNoNutrition ==
    [][(ReadsRow /\ ValidlyDated(NewestRow) /\ ~HasValue(NewestRow, "Calories"))
          => LET key == DateKey(NewestRow["Date"].s)
             IN /\ \A f \in NutritionFields : days'[key][f] = FieldBefore(key, f)
                /\ \A other \in DOMAIN days \ {key} : days'[other] = days[other]
                /\ DOMAIN days' = DOMAIN days \cup {key}]_vars

\* After a 500-calorie row, a row of the same date with protein 30 and a
\* weigh-in but no Calories: the protein stays at 30, the weight is set.
C19_Witness ==
    /\ pc = "rows"
    /\ Len(CurrentRows) = 2
    /\ CurrentRows[1]["Calories"] = Cell_500
    /\ CurrentRows[2]["Calories"] = Empty
    /\ CurrentRows[2]["Protein (g)"] = Cell_30
    /\ CurrentRows[2]["Weight"] = Cell_150
    /\ DOMAIN days = {<<2024, 1, 1>>}
    /\ days[<<2024, 1, 1>>].protein_g = F(30)
    /\ days[<<2024, 1, 1>>].calories = F(500)
    /\ days[<<2024, 1, 1>>].weight_lbs = PyFloat(F(150))

\* ------------------------------------------------------------------ C12
\* Text that is a decimal number once its commas are removed.
NumericText(s) ==
    LET t == StripSign(RemoveCommas(s))
    IN /\ t # <<>>
       /\ \A i \in 1..Len(t) : t[i] \in Digits \cup {"."}
       /\ Cardinality({i \in 1..Len(t) : t[i] = "."}) <= 1
       /\ t # <<".">>

C12_TotalOnText ==
    (number # PyNone /\ ~FloatOverflows(value)) =>
        /\ number.t = "float"
        /\ value \in {PyNone, PyStr(<<>>)} => number.x = 0
        /\ (value.t = "str" /\ ~NumericText(value.s)) => number.x = 0
        /\ value = PyStr(Str_1_234_5) => number.x = 12345

\* ------------------------------------------------------------------ C16
\* The validly-dated rows with calorie data, file by file in row order.
RECURSIVE CalorieRows(_)
CalorieRows(rows) ==
    IF rows = <<>> THEN <<>>
    ELSE LET row == rows[Len(rows)]
             before == CalorieRows(SubSeq(rows, 1, Len(rows) - 1))
         IN IF ValidlyDated(row) /\ HasValue(row, "Calories")
            THEN Append(before, row) ELSE before

\* main() is past its call of parse_multiple_csvs.
PastParseCall == step = "returned" /\ exception \in {"none", "TypeError"}
                    /\ csv_files # <<>>

\* C16: parse_multiple_csvs(csv_files, extract_foods=True) returns, next to
\* the daily aggregates, a food-entry list with one entry per validly-dated
\* row carrying calorie data, in batch and row order, nothing merged.
C16_OneFoodEntryPerCalorieRow ==
    PastParseCall =>
        /\ exception = "none"
        /\ nutrition_data # PyNone
        /\ food_entries # PyNone
        /\ Len(food_entries) = Len(CalorieRows(AllRows(csv_files)))

\* ------------------------------------------------------------------ C20
\* The attachments parse to at least one day of data.
ParseToData(files) ==
    /\ \A i \in 1..Len(files) : Decodable(files[i])
    /\ \E i \in 1..Len(files) : ValidDates(files[i].rows) # {}

\* C20: with the database connected, Gmail authenticated, a message with a
\* CSV attachment fetched and attachments that parse to at least one day,
\* main() writes the daily nutrition data and returns 0 (no batch write is
\* ever attempted that could fail instead).
C20_SuccessPathReturnsZero ==
    (step = "returned" /\ exception # "KeyboardInterrupt"
        /\ csv_files # <<>> /\ ParseToData(csv_files))
        => /\ exit_code = PyInt(0)
           /\ nutrition_data # PyNone

\* The second half of C20: whenever main() has returned from inside the try
\* block, a connected client has been closed.
SyncClosesDatabase ==
    step = "returned" => (client # PyNone => closed)

\* ------------------------------------------------------------------ C21
Operations ==
    {"write_daily_nutrition", "batch_write_nutrition", "write_food_entry",
     "batch_write_food_entries", "query_date_range", "get_latest_date",
     "query_top_foods"}

\* No connect() call before call i has returned True.
NeverConnectedBefore(i) ==
    \A j \in 1..(i - 1) :
        ~(calls[j].op = "connect" /\ calls[j].outcome = "True")

\* C21: a write or query operation called when no connect() has returned
\* True, also after a connect() that returned False, raises RuntimeError
\* and hands nothing to the InfluxDB client.
C21_ConnectBeforeUse ==
    \A i \in 1..Len(calls) :
        (calls[i].op \in Operations /\ NeverConnectedBefore(i))
            => /\ calls[i].outcome = "RuntimeError"
               /\ calls[i].sent = FALSE

\* No connect() call before call i has assigned self.client.
NoClientBefore(i) ==
    \A j \in 1..(i - 1) : ~(calls[j].op = "connect" /\ calls[j].sent)

\* What the guard of the operations does give: while self.client has never
\* been assigned, an operation raises RuntimeError and sends nothing.
OperationWithoutClientRaises ==
    \A i \in 1..Len(calls) :
        (calls[i].op \in Operations /\ NoClientBefore(i))
            => /\ calls[i].outcome = "RuntimeError"
               /\ calls[i].sent = FALSE

====
